---- MODULE Spec2Model ----
(***************************************************************************)
(* Raspberry Pi photo booth (camera.py): the main loop of main(), the      *)
(* overlay helpers, the GPIO edge detection it polls, and the try/except/  *)
(* finally block that runs main().  One action per statement group of the  *)
(* source; a sleep(d) is a timer that Tick counts down, so that the        *)
(* buttons can move and the user can interrupt while the program sleeps.   *)
(***************************************************************************)
EXTENDS Integers, Sequences, FiniteSets, TLC

\* ------------------------------------------------------------------ bounds
MaxSessions == 2       \* sessions started in one run of the process
MaxDelay == 1          \* largest PREP_DELAY and DEBOUNCE_TIME tried, in ticks
MaxCountdown == 2      \* largest COUNTDOWN tried
MaxDests == 2          \* most entries of COPY_IMAGES_TO tried
MaxPics == 1           \* largest TOTAL_PICS tried
MaxApiCalls == 4       \* overlay_image calls in a run of the overlay API alone
MaxCounter == 16       \* largest photos-taken counter a session is started with
MaxImgW == 66          \* widest image loaded
MaxImgH == 34          \* highest image loaded

\* --------------------------------------------------------------- constants
NoOverlay == -1                    \* '-1' indicates there is no overlay
CAMERA_BUTTON_PIN == "camera_button"
EXIT_BUTTON_PIN == "exit_button"
Pins == {CAMERA_BUTTON_PIN, EXIT_BUTTON_PIN}
InitialTakenPhoto == 3             \* taken_photo = 3
PlaybackSeconds == 2               \* overlay_image(filename, 2, 3)
TickSeconds == 1                   \* overlay_image(get_ready_image, 1, 3, 'RGBA')
DoneSeconds == 2                   \* sleep(2)
IntroLayer == 3
FinishedLayer == 4
GetReadyLayer == 4
CountdownLayer == 3
PlaybackLayer == 3
BlockWidth == 32                   \* ((img.size[0] + 31) // 32) * 32
BlockHeight == 16                  \* ((img.size[1] + 15) // 16) * 16

VARIABLES
    \* configuration (camera-config.yaml), fixed after start-up
    TESTMODE_AUTOPRESS_BUTTON, TOTAL_PICS, PREP_DELAY, COUNTDOWN,
    DEBOUNCE_TIME, COPY_IMAGES_TO, SAVE_RAW_IMAGES_FOLDER, SCREEN_W,
    \* control
    pc, timer, exc, exit_via,
    \* RPi.GPIO: pin level (0 = pressed), edge detection registered, edge seen
    level, armed, event,
    \* locals of main()
    photo_button_is_pressed, exit_button_is_pressed, taken_photo, overlay,
    finished_overlay, filename, photo_filenames, counter, dest_i, src_i,
    \* camera: overlays on screen, next overlay identity, overlay_image's o_id
    ov_live, ov_next, o_id, preview,
    \* effects: sounds played in the session, files written, copies
    cues, files, copies, copy_attempted, copy_failed,
    \* shutdown
    goodbye, stop_preview_calls, close_calls, cleanup_calls,
    \* bookkeeping of the run
    sessions, camera_bounced, exit_bounced, session_press,
    \* overlay API exercised alone: the last call and what it saw
    api_call,
    \* the steps of the round: what was done, in the order it was done
    steps,
    \* health_test_required_folders: the paths that exist, how often each was
    \* created, the duplicate notices printed, the loop index, folders_checked
    fs_exists, fs_made, dup_notices, folder_i, folders_checked,
    \* overlay_image: img.size, pad's size, the size given to add_overlay
    img_size, pad_size, renderer_size

cfgVars == <<TESTMODE_AUTOPRESS_BUTTON, TOTAL_PICS, PREP_DELAY, COUNTDOWN,
             DEBOUNCE_TIME, COPY_IMAGES_TO, SAVE_RAW_IMAGES_FOLDER, SCREEN_W>>
gpioVars == <<level, armed, event>>
pollVars == <<photo_button_is_pressed, exit_button_is_pressed,
              camera_bounced, exit_bounced>>
sessVars == <<taken_photo, filename, photo_filenames, counter, sessions>>
handleVars == <<overlay, finished_overlay>>
camVars == <<ov_live, ov_next, o_id, preview>>
copyVars == <<dest_i, src_i, copies, copy_attempted, copy_failed>>
downVars == <<goodbye, stop_preview_calls, close_calls, cleanup_calls>>
folderVars == <<fs_exists, fs_made, dup_notices, folder_i, folders_checked>>
imageVars == <<img_size, pad_size, renderer_size>>
helperVars == <<folderVars, imageVars>>
vars == <<cfgVars, pc, timer, exc, exit_via, gpioVars, pollVars, sessVars,
          handleVars, camVars, cues, files, copyVars, downVars, api_call,
          session_press, steps, helperVars>>

\* --------------------------------------------------------- overlay helpers
\* CAMERA.add_overlay: a new overlay with a fresh identity joins the screen.
\* An image is <<name, number>>: <<"wait", 2>> is assets/wait-2.png.
add_overlay(live, id, image, duration, layer) ==
    live \cup {[id |-> id, image |-> image, duration |-> duration,
                layer |-> layer]}

\* CAMERA.remove_overlay
camera_remove_overlay(live, id) == {o \in live : o.id # id}

\* remove_overlay with the removal left out.
remove_overlay_removes_nothing(live, overlay_id) == live

\* remove_overlay(overlay_id): "If there is an overlay, remove it"
remove_overlay(live, overlay_id) ==
    IF overlay_id # NoOverlay THEN camera_remove_overlay(live, overlay_id)
    ELSE live

\* overlay_image without "o_id = -1": the removed overlay's handle is returned.
overlay_image_result_keeps_handle(id, duration) == id

\* What overlay_image returns for the overlay it added.
overlay_image_result(id, duration) == IF duration > 0 THEN NoOverlay ELSE id

\* overlay_image up to and including "if duration > 0: sleep(duration)":
\* the overlay is added; with a duration the call sleeps at waitpc, without
\* one it returns at donepc.
OverlayShow(image, duration, layer, waitpc, donepc) ==
    /\ ov_live' = add_overlay(ov_live, ov_next, image, duration, layer)
    /\ ov_next' = ov_next + 1
    /\ IF duration > 0
       THEN /\ o_id' = ov_next
            /\ timer' = duration
            /\ pc' = waitpc
       ELSE /\ o_id' = NoOverlay
            /\ timer' = 0
            /\ pc' = donepc

\* overlay_image after the sleep: CAMERA.remove_overlay(o_id); o_id = -1.
OverlayExpire(waitpc, donepc) ==
    /\ pc = waitpc
    /\ timer = 0
    /\ ov_live' = camera_remove_overlay(ov_live, o_id)
    /\ o_id' = NoOverlay
    /\ pc' = donepc
    /\ UNCHANGED <<ov_next, timer>>

\* -------------------------------------------------- the record of the steps
\* One step of the round as it is recorded: what was done, to what, and a
\* number: the seconds an overlay is shown for or a sleep lasts, the file a
\* copy is of.
Step(op, what, n) == [op |-> op, what |-> what, n |-> n]

\* Each overlay that has left the screen, recorded.
Unshown(before, after) ==
    IF before \ after = {} THEN << >>
    ELSE << Step("unshow", (CHOOSE o \in before \ after : TRUE).image, 0) >>

\* Detection registered on a pin, recorded (the call fails on a pin that has
\* detection already: nothing is registered then).
Armed(pin) ==
    IF armed[pin] THEN << >> ELSE << Step("arm", <<pin, 0>>, 0) >>

\* Each clip that was played, recorded.
Cued(clips) == [i \in 1..Len(clips) |-> Step("cue", clips[i], 0)]

\* ------------------------------------------------------------- audio cues
\* The countdown cue of main(): one of four clips, nothing for 4..9.
countdown_cue(photo_number) ==
    IF photo_number % 10 = 0 THEN << <<"SOUND_COUNTDOWN", 0>> >>
    ELSE IF photo_number % 10 = 1 THEN << <<"SOUND_COUNTDOWN", 1>> >>
    ELSE IF photo_number % 10 = 2 THEN << <<"SOUND_COUNTDOWN", 2>> >>
    ELSE IF photo_number % 10 = 3 THEN << <<"SOUND_COUNTDOWN", 3>> >>
    ELSE << >>

\* done_sound with the countdown cue's modulus: seven clips chosen by % 10.
done_sound_modulo_10(photo_number) ==
    IF photo_number % 10 \in 0..6
    THEN << <<"SOUND_DONE", photo_number % 10>> >>
    ELSE << >>

\* done_sound(photo_number)
done_sound(photo_number) ==
    IF photo_number % 7 = 0 THEN << <<"SOUND_DONE", 0>> >>
    ELSE IF photo_number % 7 = 1 THEN << <<"SOUND_DONE", 1>> >>
    ELSE IF photo_number % 7 = 2 THEN << <<"SOUND_DONE", 2>> >>
    ELSE IF photo_number % 7 = 3 THEN << <<"SOUND_DONE", 3>> >>
    ELSE IF photo_number % 7 = 4 THEN << <<"SOUND_DONE", 4>> >>
    ELSE IF photo_number % 7 = 5 THEN << <<"SOUND_DONE", 5>> >>
    ELSE IF photo_number % 7 = 6 THEN << <<"SOUND_DONE", 6>> >>
    ELSE << >>

\* ---------------------------------------------------------------- folders
\* Folder paths are numbers; path p lies inside path p - 2 ("0/2" inside "0"),
\* so that some folders are nested and others are not.
Paths == 0..MaxDests

Ancestors(p) == {q \in Paths : q < p /\ (p - q) % 2 = 0}

\* What a file system can hold: a folder that exists lies in folders that exist.
FileSystems == {fs \in SUBSET Paths : \A p \in fs : Ancestors(p) \subseteq fs}

\* os.path.exists(folder)
os_path_exists(exists, folder) == folder \in exists

\* os.makedirs(folder): the folders it creates, the leaf and every ancestor
\* that is missing.
os_makedirs(exists, folder) == (Ancestors(folder) \cup {folder}) \ exists

\* ------------------------------------------------------------ start state
\* The lists COPY_IMAGES_TO may hold: folders 1..n, n up to MaxDests.
CopyLists == {[i \in 1..n |-> i] : n \in 0..MaxDests}

NoCall == [op |-> "none", duration |-> 0, arg |-> NoOverlay, pre |-> {},
           new |-> NoOverlay, ret |-> NoOverlay]

\* The state when main() is entered: configuration loaded, GPIO pins set up
\* as inputs with pull-ups, camera constructed, nothing on screen.
InitState ==
    /\ timer = 0
    /\ exc = "none"
    /\ exit_via = "none"
    /\ level = [p \in Pins |-> 1]
    /\ armed = [p \in Pins |-> FALSE]
    /\ event = [p \in Pins |-> FALSE]
    /\ photo_button_is_pressed = FALSE
    /\ exit_button_is_pressed = FALSE
    /\ camera_bounced = FALSE
    /\ exit_bounced = FALSE
    /\ taken_photo = 0
    /\ overlay = NoOverlay
    /\ finished_overlay = NoOverlay
    /\ filename = 0
    /\ photo_filenames = << >>
    /\ counter = 0
    /\ dest_i = 0
    /\ src_i = 0
    /\ ov_live = {}
    /\ ov_next = 1
    /\ o_id = NoOverlay
    /\ preview = FALSE
    /\ cues = << >>
    /\ files = {}
    /\ copies = {}
    /\ copy_attempted = {}
    /\ copy_failed = {}
    /\ goodbye = FALSE
    /\ stop_preview_calls = 0
    /\ close_calls = 0
    /\ cleanup_calls = 0
    /\ sessions = 0
    /\ api_call = NoCall
    /\ session_press = FALSE
    /\ steps = << >>
    /\ fs_made = [p \in Paths |-> 0]
    /\ dup_notices = << >>
    /\ folder_i = 0
    /\ folders_checked = << >>
    /\ img_size = <<0, 0>>
    /\ pad_size = <<0, 0>>
    /\ renderer_size = <<0, 0>>

\* The booth as installed: the raw-save folder is folder 0, every folder of
\* the configuration is there already (health_test_required_folders finds
\* nothing to create and nothing listed twice), the screen is wide.
Installed ==
    /\ SAVE_RAW_IMAGES_FOLDER = 0
    /\ SCREEN_W = MaxImgW
    /\ fs_exists = Paths

\* Every configuration within the bounds.
Init ==
    /\ TESTMODE_AUTOPRESS_BUTTON \in BOOLEAN
    /\ TOTAL_PICS \in 0..MaxPics
    /\ PREP_DELAY \in 0..MaxDelay
    /\ COUNTDOWN \in 0..MaxCountdown
    /\ DEBOUNCE_TIME \in 0..MaxDelay
    /\ COPY_IMAGES_TO \in CopyLists
    /\ Installed
    /\ InitState
    /\ pc = "main"

\* ---------------------------------------------------------- leaving main()
\* main() is left, by return, by break or by an exception: control is at the
\* finally block, no sleep is pending, and the locals of the polling round
\* and of the calls in progress are gone with their frames.
LeaveMain(how) ==
    /\ pc' = "finally"
    /\ exit_via' = how
    /\ timer' = 0
    /\ photo_button_is_pressed' = FALSE
    /\ exit_button_is_pressed' = FALSE
    /\ camera_bounced' = FALSE
    /\ exit_bounced' = FALSE
    /\ session_press' = FALSE
    /\ overlay' = NoOverlay
    /\ finished_overlay' = NoOverlay
    /\ o_id' = NoOverlay
    /\ counter' = 0
    /\ dest_i' = 0
    /\ src_i' = 0

\* The locals that LeaveMain drops.
localVars == <<pollVars, session_press, handleVars, o_id, counter, dest_i,
               src_i>>

\* An exception other than KeyboardInterrupt leaves main(): no except clause
\* matches, the finally block runs.
Raise ==
    /\ LeaveMain("error")
    /\ exc' = "error"

\* main() returns (return in the loop, or break at its end).
Return(how) ==
    /\ LeaveMain(how)
    /\ UNCHANGED exc

\* The places of main() and of what it calls.
MainPCs == {"main", "intro", "arm_camera", "arm_exit", "loop",
            "camera_debounce", "exit_event", "exit_debounce", "decide",
            "disarm_camera", "disarm_exit", "session_init", "prep",
            "prep_wait", "remove_intro", "countdown_cue", "tick",
            "tick_wait", "playback", "playback_wait", "done_sound",
            "show_finished", "show_intro", "done_sleep", "done_wait", "copy",
            "test_exit", "increment", "rearm_camera", "rearm_exit"}

\* The places between the removal of edge detection and its registration
\* anew: a session is in progress.
SessionPCs == {"session_init", "prep", "prep_wait", "remove_intro",
               "countdown_cue", "tick", "tick_wait", "playback",
               "playback_wait", "done_sound", "show_finished", "show_intro",
               "done_sleep", "done_wait", "copy", "test_exit", "increment",
               "rearm_camera"}

\* ------------------------------------------------------------ environment
\* A button goes down: a falling edge, recorded if detection is registered.
Press(pin) ==
    /\ pc \in MainPCs
    /\ level[pin] = 1
    /\ level' = [level EXCEPT ![pin] = 0]
    /\ event' = [event EXCEPT ![pin] = event[pin] \/ armed[pin]]
    /\ session_press' = (session_press \/ pc \in SessionPCs)
    /\ UNCHANGED <<cfgVars, helperVars, steps, pc, timer, exc, exit_via,
                   armed, pollVars, sessVars, handleVars, camVars, cues,
                   files, copyVars, downVars, api_call>>

\* A button comes up again (also a contact that bounces back).
Release(pin) ==
    /\ pc \in MainPCs
    /\ level[pin] = 0
    /\ level' = [level EXCEPT ![pin] = 1]
    /\ UNCHANGED <<cfgVars, helperVars, steps, pc, timer, exc, exit_via,
                   armed, event, pollVars, sessVars, handleVars, camVars,
                   cues, files, copyVars, downVars, api_call, session_press>>

\* Ctrl-C while main() runs: KeyboardInterrupt at the current statement, caught
\* by "except KeyboardInterrupt: print('Goodbye')".
KeyboardInterrupt ==
    /\ pc \in MainPCs
    /\ LeaveMain("kbd")
    /\ exc' = "kbd"
    /\ goodbye' = TRUE
    /\ UNCHANGED <<cfgVars, helperVars, steps, gpioVars, taken_photo,
                   filename, photo_filenames, sessions, ov_live, ov_next,
                   preview, cues, files, copies, copy_attempted, copy_failed,
                   stop_preview_calls, close_calls, cleanup_calls, api_call>>

\* One unit of time passes in a sleep().
Tick ==
    /\ timer > 0
    /\ timer' = timer - 1
    /\ UNCHANGED <<cfgVars, helperVars, steps, pc, exc, exit_via, gpioVars,
                   pollVars, sessVars, handleVars, camVars, cues, files,
                   copyVars, downVars, api_call, session_press>>

\* ------------------------------------------------------- main(): start-up
\* taken_photo = 3; health_test_required_folders(); CAMERA.start_preview(..)
MainStart ==
    /\ pc = "main"
    /\ taken_photo' = InitialTakenPhoto
    /\ preview' = TRUE
    /\ pc' = "intro"
    /\ UNCHANGED <<cfgVars, helperVars, steps, timer, exc, exit_via, gpioVars,
                   pollVars, filename, photo_filenames, counter, sessions,
                   handleVars, ov_live, ov_next, o_id, cues, files, copyVars,
                   downVars, api_call, session_press>>

\* overlay = overlay_image(intro_image, 0, 3)
ShowIntro ==
    /\ pc = "intro"
    /\ OverlayShow(<<"intro", 0>>, 0, IntroLayer, "intro", "arm_camera")
    /\ overlay' = overlay_image_result(ov_next, 0)
    /\ steps' = Append(steps, Step("show", <<"intro", 0>>, 0))
    /\ UNCHANGED <<cfgVars, helperVars, exc, exit_via, gpioVars,
                   pollVars, sessVars, finished_overlay, preview, cues, files,
                   copyVars, downVars, api_call, session_press>>

\* GPIO.add_event_detect(pin, GPIO.FALLING): registering twice is an error.
AddEventDetect(pin, nextpc) ==
    IF armed[pin]
    THEN /\ Raise
         /\ UNCHANGED gpioVars
    ELSE /\ armed' = [armed EXCEPT ![pin] = TRUE]
         /\ pc' = nextpc
         /\ UNCHANGED <<level, event, timer, exc, exit_via, localVars>>

\* GPIO.remove_event_detect(pin): edges seen so far are forgotten.
RemoveEventDetect(pin, nextpc) ==
    /\ armed' = [armed EXCEPT ![pin] = FALSE]
    /\ event' = [event EXCEPT ![pin] = FALSE]
    /\ pc' = nextpc
    /\ UNCHANGED <<level, timer, exc, exit_via>>

ArmCamera ==
    /\ pc = "arm_camera"
    /\ AddEventDetect(CAMERA_BUTTON_PIN, "arm_exit")
    /\ steps' = steps \o Armed(CAMERA_BUTTON_PIN)
    /\ UNCHANGED <<cfgVars, helperVars, taken_photo, filename,
                   photo_filenames, sessions, ov_live, ov_next, preview, cues,
                   files, copies, copy_attempted, copy_failed, downVars,
                   api_call>>

ArmExit ==
    /\ pc = "arm_exit"
    /\ AddEventDetect(EXIT_BUTTON_PIN, "loop")
    /\ steps' = steps \o Armed(EXIT_BUTTON_PIN)
    /\ UNCHANGED <<cfgVars, helperVars, taken_photo, filename,
                   photo_filenames, sessions, ov_live, ov_next, preview, cues,
                   files, copies, copy_attempted, copy_failed, downVars,
                   api_call>>

\* ------------------------------------------------- main(): polling a round
\* Top of "while True": both flags None; GPIO.event_detected(camera pin)
\* reads and clears the edge; an edge starts the debounce sleep.
PollCamera ==
    /\ pc = "loop"
    /\ photo_button_is_pressed' = FALSE
    /\ exit_button_is_pressed' = FALSE
    /\ camera_bounced' = FALSE
    /\ exit_bounced' = FALSE
    /\ session_press' = FALSE
    /\ event' = [event EXCEPT ![CAMERA_BUTTON_PIN] = FALSE]
    /\ IF event[CAMERA_BUTTON_PIN]
       THEN /\ timer' = DEBOUNCE_TIME
            /\ pc' = "camera_debounce"
       ELSE /\ timer' = 0
            /\ pc' = "exit_event"
    /\ steps' = << >>
    /\ UNCHANGED <<cfgVars, helperVars, exc, exit_via, level, armed,
                   sessVars, handleVars, camVars, cues, files, copyVars,
                   downVars, api_call>>

\* The camera edge taken as a press without reading the pin again.
CameraDebounce_without_reread ==
    /\ pc = "camera_debounce"
    /\ timer = 0
    /\ photo_button_is_pressed' = TRUE
    /\ camera_bounced' = (level[CAMERA_BUTTON_PIN] # 0)
    /\ pc' = "exit_event"
    /\ UNCHANGED <<cfgVars, helperVars, steps, timer, exc, exit_via, gpioVars,
                   exit_button_is_pressed, exit_bounced, sessVars, handleVars,
                   camVars, cues, files, copyVars, downVars, api_call,
                   session_press>>

\* After sleep(DEBOUNCE_TIME): if GPIO.input(camera pin) == 0, it is a press.
CameraDebounce ==
    /\ pc = "camera_debounce"
    /\ timer = 0
    /\ photo_button_is_pressed' = (level[CAMERA_BUTTON_PIN] = 0)
    /\ camera_bounced' = (level[CAMERA_BUTTON_PIN] # 0)
    /\ pc' = "exit_event"
    /\ UNCHANGED <<cfgVars, helperVars, steps, timer, exc, exit_via, gpioVars,
                   exit_button_is_pressed, exit_bounced, sessVars, handleVars,
                   camVars, cues, files, copyVars, downVars, api_call,
                   session_press>>

\* GPIO.event_detected(exit pin)
PollExit ==
    /\ pc = "exit_event"
    /\ event' = [event EXCEPT ![EXIT_BUTTON_PIN] = FALSE]
    /\ IF event[EXIT_BUTTON_PIN]
       THEN /\ timer' = DEBOUNCE_TIME
            /\ pc' = "exit_debounce"
       ELSE /\ timer' = 0
            /\ pc' = "decide"
    /\ UNCHANGED <<cfgVars, helperVars, steps, exc, exit_via, level, armed,
                   pollVars, sessVars, handleVars, camVars, cues, files,
                   copyVars, downVars, api_call, session_press>>

\* After sleep(DEBOUNCE_TIME): if GPIO.input(exit pin) == 0, it is a press.
ExitDebounce ==
    /\ pc = "exit_debounce"
    /\ timer = 0
    /\ exit_button_is_pressed' = (level[EXIT_BUTTON_PIN] = 0)
    /\ exit_bounced' = (level[EXIT_BUTTON_PIN] # 0)
    /\ pc' = "decide"
    /\ UNCHANGED <<cfgVars, helperVars, steps, timer, exc, exit_via, gpioVars,
                   photo_button_is_pressed, camera_bounced, sessVars,
                   handleVars, camVars, cues, files, copyVars, downVars,
                   api_call, session_press>>

\* The round decided with the capture press looked at before the exit press.
Decide_capture_first ==
    /\ pc = "decide"
    /\ IF photo_button_is_pressed \/ TESTMODE_AUTOPRESS_BUTTON
       THEN /\ sessions < MaxSessions
            /\ photo_button_is_pressed' = TRUE
            /\ pc' = "disarm_camera"
            /\ camera_bounced' = FALSE
            /\ exit_bounced' = FALSE
            /\ UNCHANGED <<timer, exc, exit_via, exit_button_is_pressed,
                           session_press, handleVars, o_id, counter, dest_i,
                           src_i>>
       ELSE IF exit_button_is_pressed
       THEN Return("exit_button")
       ELSE /\ pc' = "loop"
            /\ camera_bounced' = FALSE
            /\ exit_bounced' = FALSE
            /\ UNCHANGED <<timer, exc, exit_via, photo_button_is_pressed,
                           exit_button_is_pressed, session_press, handleVars,
                           o_id, counter, dest_i, src_i>>
    /\ UNCHANGED <<cfgVars, helperVars, steps, gpioVars, taken_photo,
                   filename, photo_filenames, sessions, ov_live, ov_next,
                   preview, cues, files, copies, copy_attempted, copy_failed,
                   downVars, api_call>>

\* The rest of the round: exit first, then the test-mode press, then either
\* sleep(0.1) and poll again or "Button pressed!".  (What bounced in the
\* round is of no interest once the round is decided.)
Decide ==
    /\ pc = "decide"
    /\ IF exit_button_is_pressed
       THEN Return("exit_button")
       ELSE /\ photo_button_is_pressed' =
                  (photo_button_is_pressed \/ TESTMODE_AUTOPRESS_BUTTON)
            /\ IF photo_button_is_pressed'
               THEN /\ sessions < MaxSessions
                    /\ pc' = "disarm_camera"
               ELSE pc' = "loop"
            /\ camera_bounced' = FALSE
            /\ exit_bounced' = FALSE
            /\ UNCHANGED <<timer, exc, exit_via, exit_button_is_pressed,
                           session_press, handleVars, o_id, counter, dest_i,
                           src_i>>
    /\ UNCHANGED <<cfgVars, helperVars, steps, gpioVars, taken_photo,
                   filename, photo_filenames, sessions, ov_live, ov_next,
                   preview, cues, files, copies, copy_attempted, copy_failed,
                   downVars, api_call>>

\* ------------------------------------------------------ main(): a session
\* GPIO.remove_event_detect(CAMERA_BUTTON_PIN)
DisarmCamera ==
    /\ pc = "disarm_camera"
    /\ RemoveEventDetect(CAMERA_BUTTON_PIN, "disarm_exit")
    /\ steps' = Append(steps, Step("disarm", <<CAMERA_BUTTON_PIN, 0>>, 0))
    /\ UNCHANGED <<cfgVars, helperVars, pollVars, sessVars, handleVars,
                   camVars, cues, files, copyVars, downVars, api_call,
                   session_press>>

\* The session entered with the exit pin left armed.
DisarmExit_forgotten ==
    /\ pc = "disarm_exit"
    /\ pc' = "session_init"
    /\ UNCHANGED <<cfgVars, helperVars, steps, timer, exc, exit_via, gpioVars,
                   pollVars, sessVars, handleVars, camVars, cues, files,
                   copyVars, downVars, api_call, session_press>>

\* GPIO.remove_event_detect(EXIT_BUTTON_PIN)
DisarmExit ==
    /\ pc = "disarm_exit"
    /\ RemoveEventDetect(EXIT_BUTTON_PIN, "session_init")
    /\ steps' = Append(steps, Step("disarm", <<EXIT_BUTTON_PIN, 0>>, 0))
    /\ UNCHANGED <<cfgVars, helperVars, pollVars, sessVars, handleVars,
                   camVars, cues, files, copyVars, downVars, api_call,
                   session_press>>

\* filename = get_base_filename_for_images(); photo_filenames = []
\* (the time stamp of the session stands for its file name)
SessionInit ==
    /\ pc = "session_init"
    /\ sessions' = sessions + 1
    /\ filename' = sessions + 1
    /\ photo_filenames' = << >>
    /\ cues' = << >>
    /\ copies' = {}
    /\ copy_attempted' = {}
    /\ copy_failed' = {}
    /\ pc' = "prep"
    /\ UNCHANGED <<cfgVars, helperVars, steps, timer, exc, exit_via, gpioVars,
                   pollVars, taken_photo, counter, handleVars, camVars, files,
                   dest_i, src_i, downVars, api_call, session_press>>

\* prep_for_photo_screen(1): overlay_image(get_ready_image, PREP_DELAY, 4,
\* 'RGBA'), the result dropped.
PrepShow ==
    /\ pc = "prep"
    /\ OverlayShow(<<"get_ready", 0>>, PREP_DELAY, GetReadyLayer, "prep_wait",
                   "remove_intro")
    /\ steps' = Append(steps, Step("show", <<"get_ready", 0>>, PREP_DELAY))
    /\ UNCHANGED <<cfgVars, helperVars, exc, exit_via, gpioVars,
                   pollVars, sessVars, handleVars, preview, cues, files,
                   copyVars, downVars, api_call, session_press>>

PrepExpire ==
    /\ OverlayExpire("prep_wait", "remove_intro")
    /\ steps' = steps \o Unshown(ov_live, ov_live')
    /\ UNCHANGED <<cfgVars, helperVars, exc, exit_via, gpioVars,
                   pollVars, sessVars, handleVars, preview, cues, files,
                   copyVars, downVars, api_call, session_press>>

\* remove_overlay(overlay)
RemoveIntro ==
    /\ pc = "remove_intro"
    /\ ov_live' = remove_overlay(ov_live, overlay)
    /\ pc' = "countdown_cue"
    /\ steps' = steps \o Unshown(ov_live, ov_live')
    /\ UNCHANGED <<cfgVars, helperVars, timer, exc, exit_via, gpioVars,
                   pollVars, sessVars, handleVars, ov_next, o_id, preview,
                   cues, files, copyVars, downVars, api_call, session_press>>

\* The if/elif chain on taken_photo % 10, then the call of taking_photo.
CountdownCue ==
    /\ pc = "countdown_cue"
    /\ cues' = cues \o countdown_cue(taken_photo)
    /\ counter' = COUNTDOWN
    /\ pc' = "tick"
    /\ steps' = steps \o Cued(countdown_cue(taken_photo))
    /\ UNCHANGED <<cfgVars, helperVars, timer, exc, exit_via, gpioVars,
                   pollVars, taken_photo, filename, photo_filenames, sessions,
                   handleVars, camVars, files, copyVars, downVars, api_call,
                   session_press>>

\* for counter in range(COUNTDOWN, 0, -1): overlay_image(wait-<counter>, 1, 3)
TickShow ==
    /\ pc = "tick"
    /\ counter > 0
    /\ OverlayShow(<<"wait", counter>>, TickSeconds, CountdownLayer,
                   "tick_wait", "tick_wait")
    /\ steps' = Append(steps, Step("show", <<"wait", counter>>, TickSeconds))
    /\ UNCHANGED <<cfgVars, helperVars, exc, exit_via, gpioVars,
                   pollVars, sessVars, handleVars, preview, cues, files,
                   copyVars, downVars, api_call, session_press>>

TickExpire ==
    /\ OverlayExpire("tick_wait", "tick")
    /\ counter' = counter - 1
    /\ steps' = steps \o Unshown(ov_live, ov_live')
    /\ UNCHANGED <<cfgVars, helperVars, exc, exit_via, gpioVars,
                   pollVars, taken_photo, filename, photo_filenames, sessions,
                   handleVars, preview, cues, files, copyVars, downVars,
                   api_call, session_press>>

\* play_sound(SOUND_CAMERA); CAMERA.capture(filename); return filename;
\* photo_filenames.append(fname).  The capture may fail.
Capture ==
    /\ pc = "tick"
    /\ counter <= 0
    /\ cues' = Append(cues, <<"SOUND_CAMERA", 0>>)
    /\ \E ok \in BOOLEAN :
         IF ok
         THEN /\ files' = files \cup {filename}
              /\ photo_filenames' = Append(photo_filenames, filename)
              /\ steps' = steps \o Cued(<< <<"SOUND_CAMERA", 0>> >>)
                             \o << Step("capture", <<"photo", filename>>, 0) >>
              /\ pc' = "playback"
              /\ UNCHANGED <<timer, exc, exit_via, localVars>>
         ELSE /\ Raise
              /\ steps' = steps \o Cued(<< <<"SOUND_CAMERA", 0>> >>)
              /\ UNCHANGED <<files, photo_filenames>>
    /\ UNCHANGED <<cfgVars, helperVars, gpioVars, taken_photo,
                   filename, sessions, ov_live, ov_next, preview, copies,
                   copy_attempted, copy_failed, downVars, api_call>>

\* overlay_image(filename, 2, 3): the photo just taken is played back.
PlaybackShow ==
    /\ pc = "playback"
    /\ OverlayShow(<<"photo", filename>>, PlaybackSeconds, PlaybackLayer,
                   "playback_wait", "done_sound")
    /\ steps' = Append(steps, Step("show", <<"photo", filename>>,
                                    PlaybackSeconds))
    /\ UNCHANGED <<cfgVars, helperVars, exc, exit_via, gpioVars,
                   pollVars, sessVars, handleVars, preview, cues, files,
                   copyVars, downVars, api_call, session_press>>

PlaybackExpire ==
    /\ OverlayExpire("playback_wait", "done_sound")
    /\ steps' = steps \o Unshown(ov_live, ov_live')
    /\ UNCHANGED <<cfgVars, helperVars, exc, exit_via, gpioVars,
                   pollVars, sessVars, handleVars, preview, cues, files,
                   copyVars, downVars, api_call, session_press>>

\* done_sound(taken_photo)
DoneSound ==
    /\ pc = "done_sound"
    /\ cues' = cues \o done_sound(taken_photo)
    /\ pc' = "show_finished"
    /\ steps' = steps \o Cued(done_sound(taken_photo))
    /\ UNCHANGED <<cfgVars, helperVars, timer, exc, exit_via, gpioVars,
                   pollVars, sessVars, handleVars, camVars, files, copyVars,
                   downVars, api_call, session_press>>

\* finished_overlay = overlay_image(finished_image, 0, 4)
ShowFinished ==
    /\ pc = "show_finished"
    /\ OverlayShow(<<"all_done", 0>>, 0, FinishedLayer, "show_finished",
                   "show_intro")
    /\ finished_overlay' = overlay_image_result(ov_next, 0)
    /\ steps' = Append(steps, Step("show", <<"all_done", 0>>, 0))
    /\ UNCHANGED <<cfgVars, helperVars, exc, exit_via, gpioVars,
                   pollVars, sessVars, overlay, preview, cues, files,
                   copyVars, downVars, api_call, session_press>>

\* overlay = overlay_image(intro_image, 0, 3)
ReshowIntro ==
    /\ pc = "show_intro"
    /\ OverlayShow(<<"intro", 0>>, 0, IntroLayer, "show_intro", "done_sleep")
    /\ overlay' = overlay_image_result(ov_next, 0)
    /\ steps' = Append(steps, Step("show", <<"intro", 0>>, 0))
    /\ UNCHANGED <<cfgVars, helperVars, exc, exit_via, gpioVars,
                   pollVars, sessVars, finished_overlay, preview, cues, files,
                   copyVars, downVars, api_call, session_press>>

\* sleep(2)
DoneSleep ==
    /\ pc = "done_sleep"
    /\ timer' = DoneSeconds
    /\ pc' = "done_wait"
    /\ steps' = Append(steps, Step("sleep", <<"sleep", 0>>, DoneSeconds))
    /\ UNCHANGED <<cfgVars, helperVars, exc, exit_via, gpioVars,
                   pollVars, sessVars, handleVars, camVars, cues, files,
                   copyVars, downVars, api_call, session_press>>

\* remove_overlay(finished_overlay), then the copy loops are entered.
RemoveFinished ==
    /\ pc = "done_wait"
    /\ timer = 0
    /\ ov_live' = remove_overlay(ov_live, finished_overlay)
    /\ dest_i' = 1
    /\ src_i' = 1
    /\ pc' = "copy"
    /\ steps' = steps \o Unshown(ov_live, ov_live')
    /\ UNCHANGED <<cfgVars, helperVars, timer, exc, exit_via, gpioVars,
                   pollVars, sessVars, handleVars, ov_next, o_id, preview,
                   cues, files, copies, copy_attempted, copy_failed, downVars,
                   api_call, session_press>>

\* for dest in COPY_IMAGES_TO: for src in photo_filenames: copy2(src, dest)
\* One step is one copy2 call, or the end of one of the two loops.  copy2
\* may fail, and nothing around it catches the exception.
CopyStep ==
    /\ pc = "copy"
    /\ IF dest_i > Len(COPY_IMAGES_TO)
       THEN /\ pc' = "test_exit"
            /\ UNCHANGED <<localVars, copies, copy_attempted, copy_failed,
                           timer, exc, exit_via, steps>>
       ELSE IF src_i > Len(photo_filenames)
       THEN /\ dest_i' = dest_i + 1
            /\ src_i' = 1
            /\ UNCHANGED <<pc, pollVars, session_press, handleVars, o_id,
                           counter, copies, copy_attempted, copy_failed,
                           timer, exc, exit_via, steps>>
       ELSE LET pair == <<photo_filenames[src_i], COPY_IMAGES_TO[dest_i]>>
            IN /\ copy_attempted' = copy_attempted \cup {pair}
               /\ \E ok \in BOOLEAN :
                    IF ok
                    THEN /\ copies' = copies \cup {pair}
                         /\ steps' = Append(steps,
                                Step("copy", <<"folder", pair[2]>>, pair[1]))
                         /\ src_i' = src_i + 1
                         /\ UNCHANGED <<pc, pollVars, session_press,
                                        handleVars, o_id, counter, dest_i,
                                        copy_failed, timer, exc, exit_via>>
                    ELSE /\ copy_failed' = copy_failed \cup {pair}
                         /\ Raise
                         /\ UNCHANGED <<copies, steps>>
    /\ UNCHANGED <<cfgVars, helperVars, gpioVars, sessVars, ov_live,
                   ov_next, preview, cues, files, downVars, api_call>>

\* The end of a session with the break taken whatever the mode.
TestExit_break_always ==
    /\ pc = "test_exit"
    /\ Return("test_mode")
    /\ UNCHANGED <<cfgVars, helperVars, steps, gpioVars, taken_photo,
                   filename, photo_filenames, sessions, ov_live, ov_next,
                   preview, cues, files, copies, copy_attempted, copy_failed,
                   downVars, api_call>>

\* The end of a session without the test-mode break.
TestExit_without_break ==
    /\ pc = "test_exit"
    /\ pc' = "increment"
    /\ UNCHANGED <<cfgVars, helperVars, steps, timer, exc, exit_via, gpioVars,
                   pollVars, sessVars, handleVars, camVars, cues, files,
                   copyVars, downVars, api_call, session_press>>

\* if TESTMODE_AUTOPRESS_BUTTON: break
TestExit ==
    /\ pc = "test_exit"
    /\ IF TESTMODE_AUTOPRESS_BUTTON
       THEN Return("test_mode")
       ELSE /\ pc' = "increment"
            /\ UNCHANGED <<timer, exc, exit_via, localVars>>
    /\ UNCHANGED <<cfgVars, helperVars, steps, gpioVars, taken_photo,
                   filename, photo_filenames, sessions, ov_live, ov_next,
                   preview, cues, files, copies, copy_attempted, copy_failed,
                   downVars, api_call>>

\* The end of a session with the counter set back to its first value.
Increment_starts_over ==
    /\ pc = "increment"
    /\ taken_photo' = InitialTakenPhoto
    /\ pc' = "rearm_camera"
    /\ UNCHANGED <<cfgVars, helperVars, steps, timer, exc, exit_via, gpioVars,
                   pollVars, filename, photo_filenames, counter, sessions,
                   handleVars, camVars, cues, files, copyVars, downVars,
                   api_call, session_press>>

\* taken_photo += 1
Increment ==
    /\ pc = "increment"
    /\ taken_photo' = taken_photo + 1
    /\ pc' = "rearm_camera"
    /\ UNCHANGED <<cfgVars, helperVars, steps, timer, exc, exit_via, gpioVars,
                   pollVars, filename, photo_filenames, counter, sessions,
                   handleVars, camVars, cues, files, copyVars, downVars,
                   api_call, session_press>>

RearmCamera ==
    /\ pc = "rearm_camera"
    /\ AddEventDetect(CAMERA_BUTTON_PIN, "rearm_exit")
    /\ steps' = steps \o Armed(CAMERA_BUTTON_PIN)
    /\ UNCHANGED <<cfgVars, helperVars, taken_photo, filename,
                   photo_filenames, sessions, ov_live, ov_next, preview, cues,
                   files, copies, copy_attempted, copy_failed, downVars,
                   api_call>>

\* Back to the idle wait without detection registered on the exit pin.
RearmExit_forgotten ==
    /\ pc = "rearm_exit"
    /\ pc' = "loop"
    /\ UNCHANGED <<cfgVars, helperVars, steps, timer, exc, exit_via, gpioVars,
                   pollVars, sessVars, handleVars, camVars, cues, files,
                   copyVars, downVars, api_call, session_press>>

RearmExit ==
    /\ pc = "rearm_exit"
    /\ AddEventDetect(EXIT_BUTTON_PIN, "loop")
    /\ steps' = steps \o Armed(EXIT_BUTTON_PIN)
    /\ UNCHANGED <<cfgVars, helperVars, taken_photo, filename,
                   photo_filenames, sessions, ov_live, ov_next, preview, cues,
                   files, copies, copy_attempted, copy_failed, downVars,
                   api_call>>

\* ----------------------------------------------------- __main__: finally
\* The finally block without GPIO.cleanup().
Finally_without_gpio_cleanup ==
    /\ pc = "finally"
    /\ preview' = FALSE
    /\ stop_preview_calls' = stop_preview_calls + 1
    /\ ov_live' = {}
    /\ close_calls' = close_calls + 1
    /\ pc' = "exited"
    /\ UNCHANGED <<cfgVars, helperVars, steps, timer, exc, exit_via, gpioVars,
                   pollVars, sessVars, handleVars, ov_next, o_id, cues, files,
                   copyVars, goodbye, cleanup_calls, api_call, session_press>>

\* finally: CAMERA.stop_preview(); CAMERA.close(); GPIO.cleanup();
\* sys.exit().  close() takes every overlay left with the camera, cleanup()
\* drops edge detection from every pin.
Finally ==
    /\ pc = "finally"
    /\ preview' = FALSE
    /\ stop_preview_calls' = stop_preview_calls + 1
    /\ ov_live' = {}
    /\ close_calls' = close_calls + 1
    /\ armed' = [p \in Pins |-> FALSE]
    /\ event' = [p \in Pins |-> FALSE]
    /\ cleanup_calls' = cleanup_calls + 1
    /\ pc' = "exited"
    /\ UNCHANGED <<cfgVars, helperVars, steps, timer, exc, exit_via, level,
                   pollVars, sessVars, handleVars, ov_next, o_id, cues, files,
                   copyVars, goodbye, api_call, session_press>>

\* ------------------------------------------------------------ the program
\* The steps the program itself takes (time passing in a sleep included).
Program ==
    \/ MainStart \/ ShowIntro \/ ArmCamera \/ ArmExit
    \/ PollCamera \/ CameraDebounce \/ PollExit \/ ExitDebounce \/ Decide
    \/ DisarmCamera \/ DisarmExit \/ SessionInit
    \/ PrepShow \/ PrepExpire \/ RemoveIntro \/ CountdownCue
    \/ TickShow \/ TickExpire \/ Capture
    \/ PlaybackShow \/ PlaybackExpire \/ DoneSound
    \/ ShowFinished \/ ReshowIntro \/ DoneSleep \/ RemoveFinished
    \/ CopyStep \/ TestExit \/ Increment \/ RearmCamera \/ RearmExit
    \/ Finally
    \/ Tick

\* What the world around the program does.
Environment ==
    \/ \E pin \in Pins : Press(pin)
    \/ \E pin \in Pins : Release(pin)
    \/ KeyboardInterrupt

Next == Program \/ Environment

Spec == Init /\ [][Next]_vars

\* The interpreter keeps running the one thread of the program, and time
\* passes in every sleep; nothing is assumed of the buttons or the user.
FairSpec == Spec /\ WF_vars(Program)

\* ------------------------------------------- the overlay helpers by themselves
\* overlay_image and remove_overlay called in any order with any duration and
\* any handle a caller can hold: "none" or a live overlay.
ApiInit ==
    /\ TESTMODE_AUTOPRESS_BUTTON = FALSE
    /\ TOTAL_PICS = 0
    /\ PREP_DELAY = 0
    /\ COUNTDOWN = 0
    /\ DEBOUNCE_TIME = 0
    /\ COPY_IMAGES_TO = << >>
    /\ Installed
    /\ InitState
    /\ pc = "api"

LiveIds == {o.id : o \in ov_live}

\* overlay_image(image_path, duration, layer) is called.
ApiOverlayImage(duration, layer) ==
    /\ pc = "api"
    /\ ov_next <= MaxApiCalls
    /\ OverlayShow(<<"image", 0>>, duration, layer, "api_wait", "api")
    /\ api_call' = [op |-> "overlay_image", duration |-> duration,
                    arg |-> NoOverlay, pre |-> ov_live, new |-> ov_next,
                    ret |-> overlay_image_result(ov_next, duration)]
    /\ UNCHANGED <<cfgVars, helperVars, steps, exc, exit_via, gpioVars,
                   pollVars, sessVars, handleVars, preview, cues, files,
                   copyVars, downVars, session_press>>

\* ... and returns after its sleep.
ApiOverlayExpire ==
    /\ OverlayExpire("api_wait", "api")
    /\ UNCHANGED <<cfgVars, helperVars, steps, exc, exit_via, gpioVars,
                   pollVars, sessVars, handleVars, preview, cues, files,
                   copyVars, downVars, api_call, session_press>>

\* remove_overlay(overlay_id) is called.
ApiRemoveOverlay(overlay_id) ==
    /\ pc = "api"
    /\ ov_live' = remove_overlay(ov_live, overlay_id)
    /\ api_call' = [op |-> "remove_overlay", duration |-> 0,
                    arg |-> overlay_id, pre |-> ov_live, new |-> NoOverlay,
                    ret |-> NoOverlay]
    /\ UNCHANGED <<cfgVars, helperVars, steps, pc, timer, exc, exit_via,
                   gpioVars, pollVars, sessVars, handleVars, ov_next, o_id,
                   preview, cues, files, copyVars, downVars, session_press>>

ApiNext ==
    \/ \E duration \in 0..(MaxDelay + 1), layer \in {IntroLayer, FinishedLayer} :
         ApiOverlayImage(duration, layer)
    \/ ApiOverlayExpire
    \/ \E overlay_id \in LiveIds \cup {NoOverlay} : ApiRemoveOverlay(overlay_id)
    \/ Tick

ApiSpec == ApiInit /\ [][ApiNext]_vars

\* ------------------------------- health_test_required_folders by itself
\* The function run over every folder list (paths listed twice included) and
\* every file system, where Spec runs the booth as installed.
SeqsOver(S, n) == UNION {[1..k -> S] : k \in 0..n}

Range(s) == {s[i] : i \in 1..Len(s)}

FolderInit ==
    /\ TESTMODE_AUTOPRESS_BUTTON = FALSE
    /\ TOTAL_PICS = 0
    /\ PREP_DELAY = 0
    /\ COUNTDOWN = 0
    /\ DEBOUNCE_TIME = 0
    /\ COPY_IMAGES_TO \in SeqsOver(Paths, MaxDests)
    /\ SAVE_RAW_IMAGES_FOLDER \in Paths
    /\ SCREEN_W = MaxImgW
    /\ fs_exists \in FileSystems
    /\ InitState
    /\ pc = "health_test"

\* folders_list=[SAVE_RAW_IMAGES_FOLDER]; folders_list.extend(COPY_IMAGES_TO)
folders_list == <<SAVE_RAW_IMAGES_FOLDER>> \o COPY_IMAGES_TO

\* ...; folders_checked=[]
HealthTestEnter ==
    /\ pc = "health_test"
    /\ folders_checked' = << >>
    /\ folder_i' = 1
    /\ pc' = "folders"
    /\ UNCHANGED <<cfgVars, timer, exc, exit_via, gpioVars, pollVars,
                   sessVars, handleVars, camVars, cues, files, copyVars,
                   downVars, api_call, session_press, steps, fs_exists,
                   fs_made, dup_notices, imageVars>>

\* One round of the loop with os.makedirs called whether the folder exists
\* or not (and no error from it).
HealthTestFolder_makedirs_unchecked ==
    /\ pc = "folders"
    /\ IF folder_i > Len(folders_list)
       THEN /\ pc' = "health_done"
            /\ UNCHANGED folderVars
       ELSE LET folder == folders_list[folder_i]
            IN /\ IF folder \notin Range(folders_checked)
                  THEN /\ folders_checked' = Append(folders_checked, folder)
                       /\ UNCHANGED dup_notices
                  ELSE /\ dup_notices' = Append(dup_notices, folder)
                       /\ UNCHANGED folders_checked
               /\ fs_exists' = fs_exists \cup {folder}
               /\ fs_made' = [fs_made EXCEPT ![folder] = @ + 1]
               /\ folder_i' = folder_i + 1
               /\ UNCHANGED pc
    /\ UNCHANGED <<cfgVars, timer, exc, exit_via, gpioVars, pollVars,
                   sessVars, handleVars, camVars, cues, files, copyVars,
                   downVars, api_call, session_press, steps, imageVars>>

\* for folder in folders_list: one round of the loop, or its end.  The
\* duplicate is reported and the round goes on; os.makedirs may fail, and
\* nothing around it catches the exception.
HealthTestFolder ==
    /\ pc = "folders"
    /\ IF folder_i > Len(folders_list)
       THEN /\ pc' = "health_done"
            /\ UNCHANGED <<folderVars, timer, exc, exit_via, localVars>>
       ELSE LET folder == folders_list[folder_i]
            IN /\ IF folder \notin Range(folders_checked)
                  THEN /\ folders_checked' = Append(folders_checked, folder)
                       /\ UNCHANGED dup_notices
                  ELSE /\ dup_notices' = Append(dup_notices, folder)
                       /\ UNCHANGED folders_checked
               /\ IF ~os_path_exists(fs_exists, folder)
                  THEN \E ok \in BOOLEAN :
                         IF ok
                         THEN /\ fs_exists' =
                                   fs_exists \cup os_makedirs(fs_exists, folder)
                              /\ fs_made' =
                                   [p \in Paths |->
                                      IF p \in os_makedirs(fs_exists, folder)
                                      THEN fs_made[p] + 1 ELSE fs_made[p]]
                              /\ folder_i' = folder_i + 1
                              /\ UNCHANGED <<pc, timer, exc, exit_via,
                                             localVars>>
                         ELSE /\ Raise
                              /\ UNCHANGED <<fs_exists, fs_made, folder_i>>
                  ELSE /\ folder_i' = folder_i + 1
                       /\ UNCHANGED <<fs_exists, fs_made, pc, timer, exc,
                                      exit_via, localVars>>
    /\ UNCHANGED <<cfgVars, gpioVars, taken_photo, filename, photo_filenames,
                   sessions, ov_live, ov_next, preview, cues, files, copies,
                   copy_attempted, copy_failed, downVars, api_call, steps,
                   imageVars>>

FolderNext == HealthTestEnter \/ HealthTestFolder

FolderSpec == FolderInit /\ [][FolderNext]_vars

\* ---------------------------------------- overlay_image: the image sizes
\* The part of overlay_image that Spec leaves out (its images are names):
\* img = Image.open(image_path), resized when wider than the screen, padded,
\* and handed to the camera.  Run over every size the image file may have.
PadInit ==
    /\ TESTMODE_AUTOPRESS_BUTTON = FALSE
    /\ TOTAL_PICS = 0
    /\ PREP_DELAY = 0
    /\ COUNTDOWN = 0
    /\ DEBOUNCE_TIME = 0
    /\ COPY_IMAGES_TO = << >>
    /\ SAVE_RAW_IMAGES_FOLDER = 0
    /\ SCREEN_W \in {MaxImgW \div 2, MaxImgW}
    /\ fs_exists = Paths
    /\ InitState
    /\ pc = "img_open"

\* int(float(img.size[1]) * float(basewidth / float(img.size[0]))): the
\* quotient rounded down; where the division is exact, floating point may
\* land just below the whole number (49 * (1 / 49.0) < 1.0), one less.
resized_heights(size, basewidth) ==
    LET q == (size[2] * basewidth) \div size[1]
    IN IF (size[2] * basewidth) % size[1] = 0 /\ q > 0 THEN {q, q - 1}
       ELSE {q}

\* img = Image.open(image_path)
ImgOpen ==
    /\ pc = "img_open"
    /\ \E w \in 1..MaxImgW, h \in 1..MaxImgH : img_size' = <<w, h>>
    /\ pc' = "img_resize"
    /\ UNCHANGED <<cfgVars, timer, exc, exit_via, gpioVars, pollVars,
                   sessVars, handleVars, camVars, cues, files, copyVars,
                   downVars, api_call, session_press, steps, folderVars,
                   pad_size, renderer_size>>

\* if img.size[0] > SCREEN_W: img = img.resize((basewidth, hsize), ..)
ImgResize ==
    /\ pc = "img_resize"
    /\ IF img_size[1] > SCREEN_W
       THEN \E hsize \in resized_heights(img_size, SCREEN_W) :
              img_size' = <<SCREEN_W, hsize>>
       ELSE UNCHANGED img_size
    /\ pc' = "img_pad"
    /\ UNCHANGED <<cfgVars, timer, exc, exit_via, gpioVars, pollVars,
                   sessVars, handleVars, camVars, cues, files, copyVars,
                   downVars, api_call, session_press, steps, folderVars,
                   pad_size, renderer_size>>

\* The padding with a block always added, also to a size that fits already.
padded_size_adds_a_block(size) ==
    <<((size[1] \div 32) + 1) * 32, ((size[2] \div 16) + 1) * 16>>

\* The size of pad: (((img.size[0] + 31) // 32) * 32,
\*                   ((img.size[1] + 15) // 16) * 16)
padded_size(size) ==
    <<((size[1] + 31) \div 32) * 32, ((size[2] + 15) \div 16) * 16>>

\* pad = Image.new(mode, (..)); pad.paste(img, (0, 0))
ImgPad ==
    /\ pc = "img_pad"
    /\ pad_size' = padded_size(img_size)
    /\ pc' = "img_add"
    /\ UNCHANGED <<cfgVars, timer, exc, exit_via, gpioVars, pollVars,
                   sessVars, handleVars, camVars, cues, files, copyVars,
                   downVars, api_call, session_press, steps, folderVars,
                   img_size, renderer_size>>

\* o_id = CAMERA.add_overlay(padded_img_data, size=img.size)
ImgAddOverlay ==
    /\ pc = "img_add"
    /\ renderer_size' = img_size
    /\ pc' = "img_done"
    /\ UNCHANGED <<cfgVars, timer, exc, exit_via, gpioVars, pollVars,
                   sessVars, handleVars, camVars, cues, files, copyVars,
                   downVars, api_call, session_press, steps, folderVars,
                   img_size, pad_size>>

PadNext == ImgOpen \/ ImgResize \/ ImgPad \/ ImgAddOverlay

PadSpec == PadInit /\ [][PadNext]_vars

\* ------------------------------------------- a session late in the evening
\* One session of a booth that has been running for a while: Spec stops
\* after MaxSessions sessions, here the session is the one that starts with
\* taken_photo anywhere up to MaxCounter.  The start state is the state of
\* Spec at "session_init" after taken_photo - 3 sessions (no test mode, no
\* copy destinations, a PREP_DELAY above 0, buttons released): the intro
\* overlay of the last session on screen, its files written, its cues played.
CueInit ==
    /\ TESTMODE_AUTOPRESS_BUTTON = FALSE
    /\ TOTAL_PICS = 1
    /\ PREP_DELAY \in 1..MaxDelay
    /\ COUNTDOWN \in 0..MaxCountdown
    /\ DEBOUNCE_TIME = 0
    /\ COPY_IMAGES_TO = << >>
    /\ Installed
    /\ taken_photo \in InitialTakenPhoto..MaxCounter
    /\ sessions = taken_photo - InitialTakenPhoto
    /\ pc = "session_init"
    /\ timer = 0
    /\ exc = "none"
    /\ exit_via = "none"
    /\ level = [p \in Pins |-> 1]
    /\ armed = [p \in Pins |-> FALSE]
    /\ event = [p \in Pins |-> FALSE]
    /\ photo_button_is_pressed = TRUE
    /\ exit_button_is_pressed = FALSE
    /\ camera_bounced = FALSE
    /\ exit_bounced = FALSE
    /\ session_press = FALSE
    /\ ov_next = 2 + sessions * (4 + COUNTDOWN)
    /\ overlay = ov_next - 1
    /\ finished_overlay = IF sessions = 0 THEN NoOverlay ELSE ov_next - 2
    /\ ov_live = add_overlay({}, overlay, <<"intro", 0>>, 0, IntroLayer)
    /\ o_id = NoOverlay
    /\ preview = TRUE
    /\ filename = sessions
    /\ photo_filenames = IF sessions = 0 THEN << >> ELSE <<sessions>>
    /\ files = 1..sessions
    /\ counter = 0
    /\ dest_i = IF sessions = 0 THEN 0 ELSE 1
    /\ src_i = IF sessions = 0 THEN 0 ELSE 1
    /\ cues = IF sessions = 0 THEN << >>
              ELSE countdown_cue(taken_photo - 1) \o << <<"SOUND_CAMERA", 0>> >>
                     \o done_sound(taken_photo - 1)
    /\ copies = {}
    /\ copy_attempted = {}
    /\ copy_failed = {}
    /\ goodbye = FALSE
    /\ stop_preview_calls = 0
    /\ close_calls = 0
    /\ cleanup_calls = 0
    /\ api_call = NoCall
    /\ steps = << Step("disarm", <<CAMERA_BUTTON_PIN, 0>>, 0),
                  Step("disarm", <<EXIT_BUTTON_PIN, 0>>, 0) >>
    /\ fs_made = [p \in Paths |-> 0]
    /\ dup_notices = << >>
    /\ folder_i = 0
    /\ folders_checked = << >>
    /\ img_size = <<0, 0>>
    /\ pad_size = <<0, 0>>
    /\ renderer_size = <<0, 0>>

\* The session, from its first statement to "taken_photo += 1".
CueNext ==
    \/ SessionInit \/ PrepShow \/ PrepExpire \/ RemoveIntro \/ CountdownCue
    \/ TickShow \/ TickExpire \/ Capture
    \/ PlaybackShow \/ PlaybackExpire \/ DoneSound
    \/ ShowFinished \/ ReshowIntro \/ DoneSleep \/ RemoveFinished
    \/ CopyStep \/ TestExit \/ Increment
    \/ Tick

CueSpec == CueInit /\ [][CueNext]_vars

\* ================================================================= claims

\* Every (captured file, destination folder) pair of the session.
AllPairs == {<<photo_filenames[i], COPY_IMAGES_TO[j]>> :
               i \in 1..Len(photo_filenames), j \in 1..Len(COPY_IMAGES_TO)}

\* C1: once distribution is over, a copy that failed has not kept any pair
\* of the session from being attempted, and it has not ended the booth: the
\* failure is not what main() was left by.
C1_CopyFailureLeavesOtherPairs ==
    (copy_failed # {} /\ pc # "copy")
        => (copy_attempted = AllPairs /\ exit_via # "error")

\* C2: the exit button is only ever found confirmed while its round is being
\* decided, and the step that decides such a round leaves the loop, through
\* the exit button (or a keyboard interruption at that very statement), with
\* no session started, whatever the capture button and test mode say.
C2_ExitPressEndsLoop ==
    /\ [](exit_button_is_pressed => pc = "decide")
    /\ [][(pc = "decide" /\ exit_button_is_pressed /\ pc' # pc)
            => /\ pc' = "finally"
               /\ exit_via' \in {"exit_button", "kbd"}
               /\ sessions' = sessions]_vars
    /\ [][(pc = "decide" /\ pc' = "finally" /\ exit_via' = "exit_button")
            => exit_button_is_pressed]_vars

\* C2 witness: a round up for decision that confirmed the exit button and the
\* capture button both, with test mode on.
C2_Witness ==
    /\ pc = "decide"
    /\ exit_button_is_pressed
    /\ photo_button_is_pressed
    /\ TESTMODE_AUTOPRESS_BUTTON
    /\ ENABLED Decide

\* C3: without test mode, a round in which the capture edge bounced (edge
\* seen, pin inactive after the debounce sleep) starts no session, and a round
\* in which the exit edge bounced is not the round that leaves the loop
\* through the exit button.
C3_BouncedEdgeIsNoPress ==
    [][(~TESTMODE_AUTOPRESS_BUTTON /\ pc = "decide")
          => /\ camera_bounced => (~photo_button_is_pressed
                                     /\ pc' # "disarm_camera")
             /\ exit_bounced => (~exit_button_is_pressed
                                   /\ exit_via' # "exit_button")]_vars

\* C3 witness: a round about to be decided in which both edges bounced, after
\* a debounce sleep of non-zero length.
C3_Witness ==
    /\ pc = "decide"
    /\ ~TESTMODE_AUTOPRESS_BUTTON
    /\ DEBOUNCE_TIME > 0
    /\ camera_bounced
    /\ exit_bounced

\* C4: preview stop, camera close and GPIO cleanup are never performed while
\* main() is still running, never more than once, and all three exactly once
\* when the process has exited, however the loop ended; nothing runs after the
\* exit; the farewell is printed on keyboard interruption and only then, and
\* it is there when the cleanup starts.
C4_CleanupExactlyOnce ==
    /\ [](/\ stop_preview_calls \in {0, 1}
          /\ close_calls \in {0, 1}
          /\ cleanup_calls \in {0, 1}
          /\ (pc # "exited")
               => (stop_preview_calls = 0 /\ close_calls = 0
                   /\ cleanup_calls = 0)
          /\ (pc = "exited")
               => (stop_preview_calls = 1 /\ close_calls = 1
                   /\ cleanup_calls = 1 /\ ~preview
                   /\ \A p \in Pins : ~armed[p])
          /\ (pc \in {"finally", "exited"})
               <=> (exit_via \in {"exit_button", "test_mode", "kbd", "error"})
          /\ goodbye <=> (exit_via = "kbd"))
    /\ [][pc # "exited"]_vars
    /\ [][pc = "finally" => pc' = "exited"]_vars

\* C4 witness: the process has exited after a keyboard interruption in the
\* middle of a session.
C4_Witness ==
    /\ pc = "exited"
    /\ exit_via = "kbd"
    /\ goodbye
    /\ sessions = 1
    /\ cleanup_calls = 1

\* C5: with test mode on and TOTAL_PICS = 1 the program comes to its exit, and
\* at the exit no second session has been started (none is started later:
\* nothing runs after the exit); when the exit is the test-mode exit (nothing
\* failed, nobody interrupted, the exit button was not confirmed) one session
\* has run, one file was captured and it was copied to every destination.
C5_TestModeOneSession ==
    (TESTMODE_AUTOPRESS_BUTTON /\ TOTAL_PICS = 1)
        => <>(/\ pc = "exited"
              /\ sessions <= 1
              /\ (exit_via = "test_mode")
                   => /\ sessions = 1
                      /\ Len(photo_filenames) = 1
                      /\ files = {photo_filenames[1]}
                      /\ copies = AllPairs
                      /\ Cardinality(copies) = Len(COPY_IMAGES_TO))

\* C5 witness: the test-mode exit with as many destinations as the bounds
\* allow, all of them holding the copy.
C5_Witness ==
    /\ pc = "exited"
    /\ TESTMODE_AUTOPRESS_BUTTON
    /\ TOTAL_PICS = 1
    /\ exit_via = "test_mode"
    /\ Len(COPY_IMAGES_TO) = MaxDests
    /\ Cardinality(copies) = MaxDests

C7_AtMostTotalPics == Len(photo_filenames) <= TOTAL_PICS

\* C8 as claimed: at most one overlay is live while main() runs.
C8_AtMostOneOverlay == pc \in MainPCs => Cardinality(ov_live) <= 1

\* Get-ready overlays shown with PREP_DELAY = 0: overlay_image leaves them
\* live and prep_for_photo_screen drops the handle.
LeftGetReady == {o \in ov_live : o.image[1] = "get_ready" /\ o.duration = 0}

\* C8 as amended: get-ready overlays left by a zero PREP_DELAY aside, at most
\* two overlays are live, and when two are, they are the intro overlay with
\* either the get-ready overlay above it or the finished overlay above it.
C8_AtMostTwoOverlays ==
    LET shown == ov_live \ LeftGetReady
    IN /\ Cardinality(shown) <= 2
       /\ (Cardinality(shown) = 2 /\ pc \in MainPCs)
            => /\ \E o \in shown : o.image[1] = "intro" /\ o.id = overlay
               /\ \E o \in shown : o.image[1] \in {"get_ready", "all_done"}

\* C8 witness: the finished overlay and the intro overlay are live together.
C8_Witness ==
    /\ pc = "done_wait"
    /\ PREP_DELAY > 0
    /\ Cardinality(ov_live) = 2
    /\ \E o \in ov_live : o.id = finished_overlay

\* C9: when main() returns through the exit button or the test-mode exit, no
\* overlay created without a duration is still live.
C9_PersistentOverlaysRemoved ==
    (pc = "finally" /\ exit_via \in {"exit_button", "test_mode"})
        => \A o \in ov_live : o.duration # 0

\* C10: when a call has returned: overlay_image with a duration has added a
\* new overlay and removed it again, the live overlays are those before the call
\* and the result is "none"; overlay_image without a duration has added one new
\* overlay, left the others alone and returned its handle; remove_overlay of
\* "none" has changed nothing; remove_overlay of a live handle has removed
\* that overlay and no other.  While overlay_image sleeps its overlay is live.
C10_OverlayCalls ==
    /\ (pc = "api_wait")
         => /\ api_call.duration > 0
            /\ o_id = api_call.new
            /\ api_call.new \notin {o.id : o \in api_call.pre}
            /\ \E o \in ov_live : o.id = api_call.new /\ ov_live = api_call.pre \cup {o}
    /\ (pc = "api" /\ api_call.op = "overlay_image" /\ api_call.duration > 0)
         => (ov_live = api_call.pre /\ api_call.ret = NoOverlay)
    /\ (pc = "api" /\ api_call.op = "overlay_image" /\ api_call.duration = 0)
         => /\ api_call.ret # NoOverlay
            /\ api_call.ret \notin {o.id : o \in api_call.pre}
            /\ \E o \in ov_live : /\ o.id = api_call.ret
                                  /\ o \notin api_call.pre
                                  /\ ov_live = api_call.pre \cup {o}
    /\ (api_call.op = "remove_overlay" /\ api_call.arg = NoOverlay)
         => ov_live = api_call.pre
    /\ (api_call.op = "remove_overlay" /\ api_call.arg # NoOverlay)
         => \E o \in api_call.pre : /\ o.id = api_call.arg
                                    /\ ov_live = api_call.pre \ {o}

\* C10 witness: overlay_image with a duration has returned, with other
\* overlays live before and after it.
C10_Witness ==
    /\ pc = "api"
    /\ api_call.op = "overlay_image"
    /\ api_call.duration > 0
    /\ api_call.pre # {}
    /\ ov_live = api_call.pre

\* C11 as claimed: the loop of main() ends (by return or break; exceptions
\* set aside) only by the step that decides a round of the armed idle wait
\* with the exit button confirmed.
C11_ExitOnlyFromArmed ==
    [][(pc \in MainPCs /\ pc' = "finally" /\ exit_via' \notin {"kbd", "error"})
          => /\ pc = "decide"
             /\ exit_button_is_pressed
             /\ \A p \in Pins : armed[p]
             /\ exit_via' = "exit_button"]_vars

\* C11 as amended: main() is left in one of three ways only: by the return
\* of a round of the armed idle wait that confirmed the exit button; by the
\* test-mode break after the distribution of a session, detection still
\* removed; or by an exception: a keyboard interruption anywhere, or a failed
\* capture or copy.
C11_ExitFromArmedOrTestMode ==
    [][(pc \in MainPCs /\ pc' = "finally")
          => \/ /\ exit_via' = "exit_button"
                /\ exc' = "none"
                /\ pc = "decide"
                /\ exit_button_is_pressed
                /\ \A p \in Pins : armed[p]
             \/ /\ exit_via' = "test_mode"
                /\ exc' = "none"
                /\ pc = "test_exit"
                /\ TESTMODE_AUTOPRESS_BUTTON
                /\ \A p \in Pins : ~armed[p]
                /\ copy_attempted = AllPairs
                /\ copies = AllPairs
             \/ /\ exit_via' = "kbd"
                /\ exc' = "kbd"
             \/ /\ exit_via' = "error"
                /\ exc' = "error"
                /\ pc \in {"tick", "copy"}]_vars

\* C11 witness: main() has returned through the exit button, from the idle
\* wait that followed a completed session, both pins armed.
C11_Witness ==
    /\ pc = "finally"
    /\ exit_via = "exit_button"
    /\ sessions = 1
    /\ \A p \in Pins : armed[p]

\* How often x is listed in the sequence s.
Occurrences(s, x) == Cardinality({i \in 1..Len(s) : s[i] = x})

\* C12: no path is ever created twice, and a path is created only while it
\* is absent; a path comes into existence only by being created; the round of
\* the loop that meets a path listed before never aborts and goes on to the
\* next entry; and once the function has completed, every listed path exists
\* (so each listed path that was absent was created, exactly once), and every
\* path has one duplicate notice for each time it was listed again: none for
\* a path listed once.
C12_FoldersCreatedOnce ==
    /\ [](\A p \in Paths : fs_made[p] <= 1)
    /\ [][\A p \in Paths :
            /\ (fs_made'[p] # fs_made[p])
                 => (p \notin fs_exists /\ p \in fs_exists'
                     /\ fs_made'[p] = fs_made[p] + 1)
            /\ (p \in fs_exists' /\ p \notin fs_exists)
                 => fs_made'[p] = fs_made[p] + 1
            /\ (p \in fs_exists) => (p \in fs_exists')]_vars
    /\ [][(pc = "folders" /\ folder_i <= Len(folders_list)
           /\ folders_list[folder_i] \in Range(folders_checked))
            => (pc' = "folders" /\ folder_i' = folder_i + 1
                /\ fs_made' = fs_made)]_vars
    /\ [](pc = "health_done"
            => /\ Range(folders_list) \subseteq fs_exists
               /\ \A p \in Paths :
                    Occurrences(dup_notices, p) =
                      IF p \in Range(folders_list)
                      THEN Occurrences(folders_list, p) - 1 ELSE 0
               /\ \A p \in Paths \ Range(folders_list) :
                    fs_made[p] = 1 => \E q \in Range(folders_list) :
                                         p \in Ancestors(q))

\* C12 witness: the function has completed on a list that names an absent
\* path twice: the path was created once and one notice was printed.
C12_Witness ==
    /\ pc = "health_done"
    /\ \E p \in Paths : /\ Occurrences(folders_list, p) = 2
                        /\ fs_made[p] = 1
                        /\ dup_notices = <<p>>

\* C13: with c the photos-taken counter the session started with, the clips
\* played so far in the session are, at every step after the countdown cue:
\* countdown clip c % 10 when that is 0..3 and no countdown clip when it is
\* 4..9; after the capture the shutter clip as well; and after the done cue
\* done clip c % 7 as well, whatever c is.
C13_CuesFollowCounter ==
    LET c == IF pc = "rearm_camera" THEN taken_photo - 1 ELSE taken_photo
        countdown == IF c % 10 \in 0..3
                     THEN << <<"SOUND_COUNTDOWN", c % 10>> >>
                     ELSE << >>
        shutter == << <<"SOUND_CAMERA", 0>> >>
        done == << <<"SOUND_DONE", c % 7>> >>
    IN /\ pc \in {"tick", "tick_wait"} => cues = countdown
       /\ pc \in {"playback", "playback_wait", "done_sound", "finally"}
            => cues = countdown \o shutter
       /\ pc \in {"show_finished", "show_intro", "done_sleep", "done_wait",
                  "copy", "test_exit", "increment", "rearm_camera"}
            => cues = countdown \o shutter \o done

\* C13 witness: a session that started with the counter at 7 is over: no
\* countdown clip was played, and the done clip is clip 0.
C13_Witness ==
    /\ pc = "rearm_camera"
    /\ taken_photo = 8
    /\ cues = << <<"SOUND_CAMERA", 0>>, <<"SOUND_DONE", 0>> >>

\* The sizes a canvas may have: the multiples of the camera's block size.
CanvasWidths == {n * BlockWidth : n \in 0..((MaxImgW \div BlockWidth) + 2)}
CanvasHeights == {n * BlockHeight : n \in 0..((MaxImgH \div BlockHeight) + 2)}

\* C14: once the canvas is made, for an image of width and height at least
\* 1, its width is a multiple of 32 not below the image's and no smaller
\* multiple of 32 is, its height likewise with 16; and the size the camera
\* is given with the overlay is the image's own.
C14_PaddedToBlockSize ==
    /\ (pc \in {"img_add", "img_done"} /\ img_size[1] >= 1 /\ img_size[2] >= 1)
         => /\ pad_size[1] \in CanvasWidths
            /\ pad_size[1] >= img_size[1]
            /\ \A W \in CanvasWidths : W >= img_size[1] => W >= pad_size[1]
            /\ pad_size[2] \in CanvasHeights
            /\ pad_size[2] >= img_size[2]
            /\ \A H \in CanvasHeights : H >= img_size[2] => H >= pad_size[2]
    /\ (pc = "img_done") => renderer_size = img_size

\* C14 witness: an image of exactly two blocks' width and one block's height
\* went to the camera: the canvas has the image's size.
C14_Witness ==
    /\ pc = "img_done"
    /\ img_size = <<2 * BlockWidth, BlockHeight>>
    /\ pad_size = img_size
    /\ renderer_size = img_size

\* The record of a session: the round's record starts with detection removed.
SessionRecorded == steps # << >> /\ steps[1].op = "disarm"

\* The record without what C15 does not speak of: the removal of the intro
\* overlay and the length of the sleep of the done step.
ClaimedSteps ==
    SelectSeq(steps, LAMBDA e : ~(e.op = "unshow" /\ e.what[1] = "intro")
                                /\ e.op # "sleep")

\* The steps C15 lists, for the configuration and for a session that started
\* with the counter at c and writes to file f: each overlay with a duration
\* shown and taken away again before the next step.
C15_Steps(c, f) ==
    << Step("disarm", <<CAMERA_BUTTON_PIN, 0>>, 0),
       Step("disarm", <<EXIT_BUTTON_PIN, 0>>, 0),
       Step("show", <<"get_ready", 0>>, PREP_DELAY),
       Step("unshow", <<"get_ready", 0>>, 0) >>
    \o (IF c % 10 \in 0..3
        THEN << Step("cue", <<"SOUND_COUNTDOWN", c % 10>>, 0) >> ELSE << >>)
    \o [i \in 1..(2 * COUNTDOWN) |->
          IF i % 2 = 1
          THEN Step("show", <<"wait", COUNTDOWN - (i \div 2)>>, 1)
          ELSE Step("unshow", <<"wait", COUNTDOWN + 1 - (i \div 2)>>, 0)]
    \o << Step("cue", <<"SOUND_CAMERA", 0>>, 0),
          Step("capture", <<"photo", f>>, 0),
          Step("show", <<"photo", f>>, 2),
          Step("unshow", <<"photo", f>>, 0),
          Step("cue", <<"SOUND_DONE", c % 7>>, 0),
          Step("show", <<"all_done", 0>>, 0),
          Step("show", <<"intro", 0>>, 0),
          Step("unshow", <<"all_done", 0>>, 0) >>
    \o [j \in 1..Len(COPY_IMAGES_TO) |->
          Step("copy", <<"folder", COPY_IMAGES_TO[j]>>, f)]

C15_Rearmed ==
    << Step("arm", <<CAMERA_BUTTON_PIN, 0>>, 0),
       Step("arm", <<EXIT_BUTTON_PIN, 0>>, 0) >>

\* C15: while main() runs a session, what the session has done so far is the
\* beginning of the listed steps in the listed order; when distribution is
\* over it is all of them, and when the booth is back in the idle wait it is
\* all of them followed by the two registrations.
C15_StepsInOrder ==
    LET c == IF pc \in {"rearm_camera", "rearm_exit", "loop"}
             THEN taken_photo - 1 ELSE taken_photo
        all == C15_Steps(c, filename) \o C15_Rearmed
        done == ClaimedSteps
    IN (pc \in MainPCs /\ SessionRecorded)
         => /\ Len(done) <= Len(all)
            /\ done = SubSeq(all, 1, Len(done))
            /\ pc = "test_exit" => done = C15_Steps(c, filename)
            /\ pc = "loop" => done = all

\* The places of a session from its first effect to "taken_photo += 1".
CountingPCs == SessionPCs \ {"session_init", "rearm_camera"}

\* C16: the counter changes in two steps only: where main() sets it to its
\* first value, and at the end of a session, by one, with every copy of the
\* session's distribution made; so it is always its first value plus the
\* number of sessions that have come to that end, and all through a session
\* it is the value the session began with.
C16_CounterPersists ==
    /\ [][taken_photo' # taken_photo
            => \/ /\ pc = "main"
                  /\ taken_photo' = InitialTakenPhoto
               \/ /\ pc = "increment"
                  /\ taken_photo' = taken_photo + 1
                  /\ copies = AllPairs
                  /\ pc' = "rearm_camera"]_vars
    /\ [](pc \in MainPCs \ {"main"}
            => taken_photo = InitialTakenPhoto + sessions
                               - (IF pc \in CountingPCs THEN 1 ELSE 0))
    /\ [][(pc \in CountingPCs /\ pc' \in CountingPCs)
            => taken_photo' = taken_photo]_vars

\* C16 witness: back in the idle wait after two sessions, the counter two
\* above its first value.
C16_Witness ==
    /\ pc = "loop"
    /\ sessions = 2
    /\ taken_photo = InitialTakenPhoto + 2

\* C17: an overlay shown for a time (get-ready, countdown tick, playback) is
\* live only while the overlay_image call that shows it is sleeping: at no
\* other step of main(), so not at the capture and not in the idle wait.
C17_TransientsRemoved ==
    pc \in MainPCs
      => \A o \in ov_live :
           o.image[1] \in {"get_ready", "wait", "photo"}
             => (o.id = o_id
                 /\ pc \in {"prep_wait", "tick_wait", "playback_wait"})

\* C18: while the done step sleeps, the finished overlay is live with the
\* intro overlay on a layer below it, and the sleep is one of 3 seconds;
\* when distribution starts the finished overlay is gone.
C18_FinishedShownThreeSeconds ==
    /\ pc = "done_wait"
         => /\ \E f \in ov_live, i \in ov_live :
                 /\ f.id = finished_overlay /\ f.image[1] = "all_done"
                 /\ i.id = overlay /\ i.image[1] = "intro"
                 /\ i.layer < f.layer
            /\ steps[Len(steps)] = Step("sleep", <<"sleep", 0>>, 3)
    /\ pc = "copy" => \A o \in ov_live : o.image[1] # "all_done"

\* The places of the idle wait: a polling round, from "while True" to its
\* decision.
IdlePCs == {"loop", "camera_debounce", "exit_event", "exit_debounce",
            "decide"}

\* C19: in the idle wait with detection registered on both pins, the one
\* overlay live is the intro overlay that 'overlay' holds; and the handle
\* that a session is about to remove is the handle of a live overlay.
C19_OnlyIntroWhenIdle ==
    /\ (pc \in IdlePCs /\ \A p \in Pins : armed[p])
         => \E o \in ov_live : /\ ov_live = {o}
                               /\ o.id = overlay
                               /\ o.image[1] = "intro"
    /\ pc = "remove_intro" => \E o \in ov_live : o.id = overlay

\* Detection is registered only on a pin that has none, and removed only
\* from a pin that has it.
RegisteredInTurn ==
    /\ pc \in {"arm_camera", "rearm_camera"} => ~armed[CAMERA_BUTTON_PIN]
    /\ pc \in {"arm_exit", "rearm_exit"} => ~armed[EXIT_BUTTON_PIN]
    /\ pc = "disarm_camera" => armed[CAMERA_BUTTON_PIN]
    /\ pc = "disarm_exit" => armed[EXIT_BUTTON_PIN]

\* The places of main() before the first registration of detection.
StartPCs == {"main", "intro", "arm_camera"}

\* C20 as claimed: detection is registered and removed in turn, and while
\* main() runs both pins are armed exactly in the idle wait (to the removal
\* that ends it) and both are disarmed exactly in a session (to the
\* registration that ends it).
C20_ArmedExactlyWhenIdle ==
    pc \in MainPCs
      => /\ RegisteredInTurn
         /\ (\A p \in Pins : armed[p]) <=> pc \in IdlePCs \cup {"disarm_camera"}
         /\ (\A p \in Pins : ~armed[p]) <=> pc \in SessionPCs

\* C20 as amended: the same, with both pins disarmed exactly in a session
\* and at the start of main(), before the first registration.
C20_ArmedWhenIdleDisarmedElse ==
    pc \in MainPCs
      => /\ RegisteredInTurn
         /\ (\A p \in Pins : armed[p]) <=> pc \in IdlePCs \cup {"disarm_camera"}
         /\ (\A p \in Pins : ~armed[p]) <=> pc \in SessionPCs \cup StartPCs

\* C20 witness: after a session, between the two registrations: the camera
\* pin is armed again, the exit pin not yet.
C20_Witness ==
    /\ pc = "rearm_exit"
    /\ sessions = 1
    /\ armed[CAMERA_BUTTON_PIN]
    /\ ~armed[EXIT_BUTTON_PIN]

====
